---- MODULE Spec2Model ----
(***************************************************************************)
(* Model of go-osmium-extract (src/main.go).                               *)
(*                                                                         *)
(* Spec, FairSpec: processGeoJSON with bulkInsert and extractAddressData,  *)
(*   the streaming decode -> extract -> batched transactional load ->      *)
(*   index / full-text build.  The input document is read lazily: each     *)
(*   decoder step draws what the decoder finds at its scan position.  The  *)
(*   store is the SQLite file as opened at main.go:212 (journal_mode=OFF,  *)
(*   locking_mode=EXCLUSIVE).                                              *)
(* SpecExtract: one call of extractAddressData, for every feature of a     *)
(*   space of properties and geometries.                                   *)
(* SpecLocate: the two token loops of processGeoJSON over documents given  *)
(*   token by token.                                                       *)
(* SpecSearch: searchAddresses on the databases processGeoJSON can leave.  *)
(* SpecRun: the stages of run.                                             *)
(***************************************************************************)
EXTENDS Integers, Sequences, FiniteSets, TLC

(***************************************************************************)
(* Sizes.  batchSize, maxBatchDuration and maxRecordsPerBatch stand for    *)
(* the program's 500000 records, 5 seconds and 500 records, scaled down so *)
(* that a full batch, a timed flush and a flush of several sub-batches all *)
(* happen within a few features.                                           *)
(***************************************************************************)
batchSize == 3
maxBatchDuration == 1
maxRecordsPerBatch == 2
\* number of values the decoder reads from the features array
MaxFeatures == 4
\* number of tokens the outer loop reads before it meets "features"
MaxTokens == 1

\* connection parameters of sql.Open
journalMode == "OFF"
lockingMode == "EXCLUSIVE"

(***************************************************************************)
(* Features and extractAddressData                                         *)
(***************************************************************************)
Str(s) == [t |-> "str", v |-> s]
Num(s) == [t |-> "num", v |-> s]
Null == [t |-> "null", v |-> ""]

\* a coordinates payload: the nesting depth of its arrays and the arrays
\* themselves.  Depth 0: the payload is missing or is no array.
\* Coords(1, <<>>) is the payload null or [].
Coords(d, v) == [depth |-> d, val |-> v]

featA ==
    [props |-> ("addr:street" :> Str("Hauptstrasse")) @@
               ("addr:housenumber" :> Str("1")) @@ ("addr:city" :> Str("Berlin")),
     gtype |-> "Point", coords |-> Coords(1, <<13, 52>>)]
\* same natural key as featA, reached through the town fallback
featA2 ==
    [props |-> ("addr:street" :> Str("Hauptstrasse")) @@
               ("addr:housenumber" :> Num("1.0")) @@
               ("addr:town" :> Str("Berlin")) @@ ("addr:village" :> Str("Dorf")),
     gtype |-> "LineString", coords |-> Coords(2, <<<<14, 53>>, <<15, 54>>>>)]
featB ==
    [props |-> ("addr:street" :> Str("Hauptstrasse")) @@
               ("addr:housenumber" :> Str("2")) @@ ("addr:city" :> Str("Berlin")),
     gtype |-> "Polygon",
     coords |-> Coords(3, <<<<<<2, 3>>, <<4, 5>>, <<2, 3>>>>>>)]
\* no street
featC ==
    [props |-> ("addr:housenumber" :> Str("3")) @@ ("addr:city" :> Str("Berlin")),
     gtype |-> "Point", coords |-> Coords(1, <<13, 52>>)]
\* the (0, 0) coordinate
featZ ==
    [props |-> ("addr:street" :> Str("Hauptstrasse")) @@
               ("addr:housenumber" :> Str("4")) @@ ("addr:city" :> Str("Berlin")),
     gtype |-> "Point", coords |-> Coords(1, <<0, 0>>)]

Features == {featA, featA2, featB, featC, featZ}

\* strconv's shortest formatting of a float64, for the number literals used
FormatFloat(lit) == IF lit = "1.0" THEN "1" ELSE lit

\* fmt.Sprintf("%v", x) of a property value; an absent or null value is nil
Sprintf(x) ==
    CASE x.t = "str" -> x.v
      [] x.t = "num" -> FormatFloat(x.v)
      [] OTHER -> "<nil>"

\* properties[key]: the value and whether the key is present
Lookup(properties, key) ==
    IF key \in DOMAIN properties THEN properties[key] ELSE Null
Has(properties, key) == key \in DOMAIN properties

\* the array nesting each geometry type is unmarshalled at
GeometryDepth(gtype) ==
    CASE gtype = "Point" -> 1
      [] gtype = "LineString" -> 2
      [] gtype = "Polygon" -> 3
      [] gtype = "MultiPolygon" -> 4
      [] OTHER -> 0

NoRecord == [street |-> "", house_number |-> "", city |-> "", lon |-> 0, lat |-> 0]

RECURSIVE Hollow(_, _)
\* the arrays of v, nested d deep, hold no number
Hollow(v, d) ==
    IF d <= 1 THEN v = <<>> ELSE \A k \in 1..Len(v) : Hollow(v[k], d - 1)

\* json.Unmarshal(feature.Geometry.Coordinates, &coords) returns nil for
\* coords a slice nested k deep: the payload is nested k deep, or it is
\* shallower and ends in empty arrays
Unmarshal(c, k) ==
    \/ c.depth = k
    \/ c.depth >= 1 /\ c.depth < k /\ Hollow(c.val, c.depth)

\* lines 520-524
PointCoords(c) ==
    IF Unmarshal(c, 1) /\ Len(c.val) >= 2
    THEN <<c.val[1], c.val[2]>> ELSE <<0, 0>>

\* lines 525-529
LineStringCoords(c) ==
    IF Unmarshal(c, 2) /\ Len(c.val) > 0 /\ Len(c.val[1]) >= 2
    THEN <<c.val[1][1], c.val[1][2]>> ELSE <<0, 0>>

\* the second vertex of the outer ring
PolygonCoordsSecond(c) ==
    IF Unmarshal(c, 3) /\ Len(c.val) > 0 /\ Len(c.val[1]) > 1
                       /\ Len(c.val[1][2]) >= 2
    THEN <<c.val[1][2][1], c.val[1][2][2]>> ELSE <<0, 0>>

\* lines 530-534
PolygonCoords(c) ==
    IF Unmarshal(c, 3) /\ Len(c.val) > 0 /\ Len(c.val[1]) > 0
                       /\ Len(c.val[1][1]) >= 2
    THEN <<c.val[1][1][1], c.val[1][1][2]>> ELSE <<0, 0>>

\* lines 535-539
MultiPolygonCoords(c) ==
    IF Unmarshal(c, 4) /\ Len(c.val) > 0 /\ Len(c.val[1]) > 0
                       /\ Len(c.val[1][1]) > 0 /\ Len(c.val[1][1][1]) >= 2
    THEN <<c.val[1][1][1][1], c.val[1][1][1][2]>> ELSE <<0, 0>>

\* the gate accepting every feature
hasAny(properties) == TRUE

\* line 497, the second result
hasStreet(properties) == Has(properties, "addr:street")

\* village tried before town
resolveCityVillageFirst(properties) ==
    IF Has(properties, "addr:city") THEN Lookup(properties, "addr:city")
    ELSE IF Has(properties, "addr:village") THEN Lookup(properties, "addr:village")
    ELSE IF Has(properties, "addr:town") THEN Lookup(properties, "addr:town")
    ELSE Str("")

\* lines 499-510
resolveCity(properties) ==
    IF Has(properties, "addr:city") THEN Lookup(properties, "addr:city")
    ELSE IF Has(properties, "addr:town") THEN Lookup(properties, "addr:town")
    ELSE IF Has(properties, "addr:village") THEN Lookup(properties, "addr:village")
    ELSE Str("")

\* the test written with "or"
IsZeroEither(lon, lat) == lon = 0 \/ lat = 0

\* line 544
IsZero(lon, lat) == lon = 0 /\ lat = 0

extractAddressData(feature) ==
    LET properties == feature.props
        street == Lookup(properties, "addr:street")
        houseNumber == Lookup(properties, "addr:housenumber")
        city == resolveCity(properties)
        c == feature.coords
        lonlat == CASE feature.gtype = "Point" -> PointCoords(c)
                    [] feature.gtype = "LineString" -> LineStringCoords(c)
                    [] feature.gtype = "Polygon" -> PolygonCoords(c)
                    [] feature.gtype = "MultiPolygon" -> MultiPolygonCoords(c)
                    [] OTHER -> <<0, 0>>
        lon == lonlat[1]
        lat == lonlat[2]
    IN  IF ~hasStreet(properties) THEN [ok |-> FALSE, record |-> NoRecord]
        ELSE IF GeometryDepth(feature.gtype) = 0
             THEN [ok |-> FALSE, record |-> NoRecord]
        ELSE IF IsZero(lon, lat) THEN [ok |-> FALSE, record |-> NoRecord]
        ELSE [ok |-> TRUE,
              record |-> [street |-> Sprintf(street),
                          house_number |-> Sprintf(houseNumber),
                          city |-> Sprintf(city),
                          lon |-> lon, lat |-> lat]]

(***************************************************************************)
(* The store                                                               *)
(***************************************************************************)
Key(r) == <<r.street, r.house_number, r.city>>

Min(a, b) == IF a < b THEN a ELSE b

\* a plain INSERT into a table without the UNIQUE constraint
InsertAlways(rows, rec) ==
    Append(rows, [id |-> Len(rows) + 1, street |-> rec.street,
                  house_number |-> rec.house_number, city |-> rec.city,
                  lon |-> rec.lon, lat |-> rec.lat])

\* one row of the multi-row INSERT OR IGNORE: the UNIQUE(street,
\* house_number, city) conflict drops the row, else it gets the next id
InsertOrIgnore(rows, rec) ==
    IF \E k \in 1..Len(rows) : Key(rows[k]) = Key(rec)
    THEN rows
    ELSE Append(rows, [id |-> Len(rows) + 1, street |-> rec.street,
                       house_number |-> rec.house_number, city |-> rec.city,
                       lon |-> rec.lon, lat |-> rec.lat])

RECURSIVE InsertAll(_, _)
\* the rows after one statement carrying the records recs, in order
InsertAll(rows, recs) ==
    IF recs = <<>> THEN rows
    ELSE InsertAll(InsertOrIgnore(rows, Head(recs)), Tail(recs))

\* what the file holds when a commit of the pending rows is cut short:
\* without a rollback journal nothing undoes the pages already written
CommitInterrupted(file, pending) ==
    IF journalMode = "OFF"
    THEN {file \o SubSeq(pending, 1, k) : k \in 0..Len(pending)}
    ELSE {file}

(***************************************************************************)
(* State of processGeoJSON                                                 *)
(***************************************************************************)
VARIABLES
    pc,              \* position in processGeoJSON
    err,             \* the error processGeoJSON returned, "" while none
    pos,             \* tokens and values the decoder has consumed
    nread,           \* values read from the features array
    decErr,          \* the decoder's sticky error (dec.err)
    spin,            \* parity of the iterations made with dec.err set
    batch,           \* the in-memory batch buffer
    totalCount,
    sinceBatchStart, \* time.Since(batchStartTime), in seconds
    i,               \* bulkInsert's loop index
    txOpen,          \* tx is begun and neither committed nor rolled back
    txRows,          \* rows inserted in tx, not yet committed
    disk,            \* rows of addresses in the database file
    indices,         \* secondary indices created so far
    ftsExists,       \* address_fts is created
    fts,             \* rows of address_fts
    accepted,        \* history: the records extractAddressData returned
    flushes,         \* history: the batches whose commit returned nil
    stmts,           \* history: records carried by each statement of this flush
    buildRuns,       \* history: times the index build was started
    arg,             \* the feature extractAddressData is called with
    result,          \* what it returned
    doc,             \* the tokens of the input document
    startedAt,       \* history: the token that started the feature loop, or 0
    decodedAt,       \* history: where the values the feature loop decoded begin
    results,         \* the rows the latest query of searchAddresses returned
    files,           \* what run finds on disk under each file name
    ran              \* history: the stages run has called

vars == <<pc, err, pos, nread, decErr, spin, batch, totalCount, sinceBatchStart, i,
          txOpen, txRows, disk, indices, ftsExists, fts, accepted, flushes,
          stmts, buildRuns, arg, result, doc, startedAt, decodedAt,
          results, files, ran>>

extractVars == <<arg, result>>
locateVars == <<doc, startedAt, decodedAt>>
searchVars == <<results>>
runVars == <<files, ran>>

\* what the steps of the load and the build below leave alone
auxVars == <<extractVars, locateVars, searchVars, runVars>>

loaderVars == <<batch, totalCount, sinceBatchStart, i, accepted>>
storeVars == <<txOpen, txRows, disk, indices, ftsExists, fts, flushes, stmts,
               buildRuns>>
decoderVars == <<pos, nread, decErr, spin>>

createIndices == <<"idx_city", "idx_street", "idx_street_house">>

\* os.Remove(dbFile): no database file
NoDatabase ==
    /\ disk = <<>>
    /\ indices = {}
    /\ ftsExists = FALSE
    /\ fts = <<>>

\* a process that has done nothing
Fresh ==
    /\ err = ""
    /\ pos = 0
    /\ nread = 0
    /\ decErr = FALSE
    /\ spin = 0
    /\ batch = <<>>
    /\ totalCount = 0
    /\ sinceBatchStart = 0
    /\ i = 0
    /\ txOpen = FALSE
    /\ txRows = <<>>
    /\ accepted = <<>>
    /\ flushes = <<>>
    /\ stmts = <<>>
    /\ buildRuns = 0

NoFeature == [props |-> [k \in {} |-> Null], gtype |-> "", coords |-> Coords(0, <<>>)]
NoResult == [ok |-> FALSE, record |-> NoRecord]

ExtractIdle == arg = NoFeature /\ result = NoResult
LocateIdle == doc = <<>> /\ startedAt = 0 /\ decodedAt = <<>>
SearchIdle == results = <<>>

\* fileName, filtered.osm.pbf, filtered.geojson, dbFile
FileNames == {"osm", "filtered", "geojson", "db"}
RunIdle == files = [f \in FileNames |-> "absent"] /\ ran = <<>>

Init ==
    /\ pc = "setup"
    /\ Fresh
    /\ NoDatabase
    /\ ExtractIdle
    /\ LocateIdle
    /\ SearchIdle
    /\ RunIdle

\* the process ends: its memory is gone, and with it whatever tx inserted
\* and did not commit
Exit ==
    /\ batch' = <<>>
    /\ i' = 0
    /\ sinceBatchStart' = 0
    /\ txRows' = <<>>
    /\ txOpen' = FALSE
    /\ stmts' = <<>>
    /\ pos' = 0
    /\ nread' = 0
    /\ decErr' = FALSE
    /\ spin' = 0
    /\ totalCount' = 0
    /\ UNCHANGED <<accepted, ftsExists, flushes, buildRuns, auxVars>>

\* return err: no tx.Rollback() anywhere, the deferred db.Close() leaves the
\* connection held by an open tx alone, and main exits through log.Fatalf
Fail(stage) ==
    /\ pc' = "failed"
    /\ err' = stage
    /\ Exit

(***************************************************************************)
(* Lines 204-286: open the input, create the database and the table, read  *)
(* the opening '{', begin the first transaction.                           *)
(***************************************************************************)
Setup ==
    /\ pc = "setup"
    /\ pc' = "outer"
    /\ txOpen' = TRUE
    /\ UNCHANGED <<err, decoderVars, loaderVars, txRows, disk, indices,
                   ftsExists, fts, flushes, stmts, buildRuns>>
    /\ UNCHANGED auxVars

SetupFail ==
    /\ pc = "setup"
    /\ \E stage \in {"open", "pragma", "create table", "token", "begin"} :
           Fail(stage)
    /\ UNCHANGED <<disk, fts, indices>>

(***************************************************************************)
(* Lines 289-301: one iteration of the outer token loop.  tok is what the  *)
(* decoder finds at its scan position.                                     *)
(***************************************************************************)
Closers == {"]", "}", "EOF"}
OuterTokens == {"{", "[", "features", "other"} \cup Closers

OuterToken ==
    /\ pc = "outer"
    /\ \E tok \in OuterTokens :
          CASE tok \in Closers ->
                   \* decoder.More() is false: on to the index build
                   /\ pc' = "index"
                   /\ UNCHANGED <<err, pos>>
            [] tok = "features" ->
                   \* line 298 reads one more token, taken to be the '['
                   /\ pc' = "inner"
                   /\ pos' = pos + 2
                   /\ UNCHANGED err
            [] OTHER ->
                   /\ pos < MaxTokens
                   /\ pc' = "outer"
                   /\ pos' = pos + 1
                   /\ UNCHANGED err
    /\ UNCHANGED <<nread, decErr, spin, loaderVars, storeVars>>
    /\ UNCHANGED auxVars

\* decoder.Token() returns an error: an invalid token, or the input ends
\* where the '[' after "features" should be
TokenFail ==
    /\ pc = "outer"
    /\ Fail("token")
    /\ UNCHANGED <<disk, fts, indices>>

(***************************************************************************)
(* Lines 304-318: one iteration of the feature loop                        *)
(***************************************************************************)
\* the size test written with > instead of >=
FlushDueLate(n, since) == n > batchSize \/ since >= maxBatchDuration

\* line 318: the periodic commit is due
FlushDue(n, since) == n >= batchSize \/ since >= maxBatchDuration

\* decoder.More() is false at ']' or at the end of the input
InnerEnd ==
    /\ pc = "inner"
    /\ ~decErr
    /\ pc' = "final"
    /\ UNCHANGED <<err, decoderVars, loaderVars, storeVars>>
    /\ UNCHANGED auxVars

\* Decode returns a feature; extract; append; test the flush trigger
DecodeFeature ==
    /\ pc = "inner"
    /\ ~decErr
    /\ nread < MaxFeatures
    /\ \E feature \in Features :
          LET r == extractAddressData(feature) IN
          IF r.ok
          THEN /\ batch' = Append(batch, r.record)
               /\ accepted' = Append(accepted, r.record)
               /\ totalCount' = totalCount + 1
               /\ IF FlushDue(Len(batch) + 1, sinceBatchStart)
                  THEN /\ pc' = "flushInsert"
                       /\ i' = 0
                       /\ stmts' = <<>>
                  ELSE /\ pc' = "inner"
                       /\ UNCHANGED <<i, stmts>>
          ELSE /\ pc' = "inner"
               /\ UNCHANGED <<batch, accepted, totalCount, i, stmts>>
    /\ pos' = pos + 1
    /\ nread' = nread + 1
    /\ UNCHANGED <<err, decErr, spin, sinceBatchStart, txOpen, txRows, disk,
                   indices, ftsExists, fts, flushes, buildRuns>>
    /\ UNCHANGED auxVars

\* Decode reads a complete value that does not fit Feature
\* (UnmarshalTypeError): the value is consumed, continue
DecodeTypeError ==
    /\ pc = "inner"
    /\ ~decErr
    /\ nread < MaxFeatures
    /\ pos' = pos + 1
    /\ nread' = nread + 1
    /\ UNCHANGED <<pc, err, decErr, spin, loaderVars, storeVars>>
    /\ UNCHANGED auxVars

\* Decode meets a syntax error or the end of the input inside the value:
\* readValue stores the error in dec.err and consumes nothing, continue
DecodeSyntaxError ==
    /\ pc = "inner"
    /\ ~decErr
    /\ nread < MaxFeatures
    /\ decErr' = TRUE
    /\ UNCHANGED <<pc, err, pos, nread, spin, loaderVars, storeVars>>
    /\ UNCHANGED auxVars

\* the input ends after a ',': Decode stores io.EOF in dec.err, continue, and
\* More() is false because nothing is left to peek at
DecodeAtEOF ==
    /\ pc = "inner"
    /\ ~decErr
    /\ decErr' = TRUE
    /\ pc' = "final"
    /\ UNCHANGED <<err, pos, nread, spin, loaderVars, storeVars>>
    /\ UNCHANGED auxVars

\* with dec.err set More() still sees the unread value and Decode returns
\* dec.err at once: continue, for ever
DecodeStuck ==
    /\ pc = "inner"
    /\ decErr
    /\ spin' = 1 - spin
    /\ UNCHANGED <<pc, err, pos, nread, decErr, loaderVars, storeVars>>
    /\ UNCHANGED auxVars

\* time passes while the loop waits for input
Tick ==
    /\ pc \in {"outer", "inner"}
    /\ sinceBatchStart <= maxBatchDuration
    /\ sinceBatchStart' = sinceBatchStart + 1
    /\ UNCHANGED <<pc, err, decoderVars, batch, totalCount, i, accepted, storeVars>>
    /\ UNCHANGED auxVars

(***************************************************************************)
(* bulkInsert, lines 454-491: one statement per iteration                  *)
(***************************************************************************)
InBulkInsert == pc \in {"flushInsert", "finalInsert"}

\* the slice taken one record too far in
currentBatchShort(records, from) ==
    SubSeq(records, from + 2, Min(from + maxRecordsPerBatch, Len(records)))

\* every statement carrying the whole buffer
currentBatchWhole(records, from) == records

\* records[i:end]
currentBatch(records, from) ==
    SubSeq(records, from + 1, Min(from + maxRecordsPerBatch, Len(records)))

\* the last batch inserted but its commit left out
AfterInsertNoCommit(at) == IF at = "flushInsert" THEN "flushCommit" ELSE "index"

\* where bulkInsert's caller goes on after it returned nil
AfterInsert(at) == IF at = "flushInsert" THEN "flushCommit" ELSE "finalCommit"

\* tx.Exec of one multi-row INSERT OR IGNORE
ExecSubBatch ==
    /\ InBulkInsert
    /\ i < Len(batch)
    /\ LET cur == currentBatch(batch, i)
           view == InsertAll(disk \o txRows, cur)
       IN  /\ txRows' = SubSeq(view, Len(disk) + 1, Len(view))
           /\ stmts' = Append(stmts, cur)
    /\ i' = i + maxRecordsPerBatch
    /\ pc' = IF i + maxRecordsPerBatch < Len(batch) THEN pc ELSE AfterInsert(pc)
    /\ UNCHANGED <<err, decoderVars, batch, totalCount, sinceBatchStart, accepted,
                   txOpen, disk, indices, ftsExists, fts, flushes, buildRuns>>
    /\ UNCHANGED auxVars

\* tx.Exec returns an error: bulkInsert and processGeoJSON return it
ExecFail ==
    /\ InBulkInsert
    /\ i < Len(batch)
    /\ Fail("insert")
    /\ UNCHANGED <<disk, fts, indices>>

(***************************************************************************)
(* tx.Commit, lines 324 and 373                                            *)
(***************************************************************************)
InCommit == pc \in {"flushCommit", "finalCommit"}

Commit ==
    /\ InCommit
    /\ disk' = disk \o txRows
    /\ txRows' = <<>>
    /\ txOpen' = FALSE
    /\ flushes' = Append(flushes, batch)
    /\ pc' = IF pc = "flushCommit" THEN "flushBegin" ELSE "index"
    /\ UNCHANGED <<err, decoderVars, loaderVars, indices, ftsExists, fts, stmts,
                   buildRuns>>
    /\ UNCHANGED auxVars

\* tx.Commit returns an error after it wrote some of the pages
CommitFail ==
    /\ InCommit
    /\ disk' \in CommitInterrupted(disk, txRows)
    /\ Fail("commit")
    /\ UNCHANGED <<fts, indices>>

(***************************************************************************)
(* Lines 354-361: begin the next transaction, clear the buffer             *)
(***************************************************************************)
\* the buffer cut back to its last record
TruncateButLast(b) == SubSeq(b, Len(b), Len(b))

\* line 360: batch[:0]
Truncate(b) == SubSeq(b, 1, 0)

Begin ==
    /\ pc = "flushBegin"
    /\ txOpen' = TRUE
    /\ batch' = Truncate(batch)
    /\ sinceBatchStart' = 0
    /\ pc' = "inner"
    /\ UNCHANGED <<err, decoderVars, totalCount, i, accepted, txRows, disk,
                   indices, ftsExists, fts, flushes, stmts, buildRuns>>
    /\ UNCHANGED auxVars

BeginFail ==
    /\ pc = "flushBegin"
    /\ Fail("begin")
    /\ UNCHANGED <<disk, fts, indices>>

(***************************************************************************)
(* Lines 366-377: the last batch                                           *)
(***************************************************************************)
\* line 367
HasLastBatch(b) == Len(b) > 0

FinalCheck ==
    /\ pc = "final"
    /\ IF HasLastBatch(batch)
       THEN /\ pc' = "finalInsert"
            /\ i' = 0
            /\ stmts' = <<>>
       ELSE \* the outer More() is false as well: the loop ends
            /\ pc' = "index"
            /\ UNCHANGED <<i, stmts>>
    /\ UNCHANGED <<err, decoderVars, batch, totalCount, sinceBatchStart, accepted,
                   txOpen, txRows, disk, indices, ftsExists, fts, flushes,
                   buildRuns>>
    /\ UNCHANGED auxVars

(***************************************************************************)
(* Lines 381-439: the index and full-text build, through db                *)
(***************************************************************************)
\* db.Exec needs a connection of the pool.  The one that ran the load is
\* held by tx while tx is open, so a second one is opened, and the first
\* keeps the file locked (locking_mode=EXCLUSIVE): the statement fails with
\* "database is locked" after the busy timeout.
DbExecBlocked == txOpen /\ lockingMode = "EXCLUSIVE"

\* the mirror filled with the rows' positions instead of their ids
FtsSelectByPosition(rows) ==
    [k \in 1..Len(rows) |->
        [rowid |-> k - 1, street |-> rows[k].street,
         house_number |-> rows[k].house_number, city |-> rows[k].city]]

\* SELECT id, street, house_number, city FROM addresses
FtsSelect(rows) ==
    [k \in 1..Len(rows) |->
        [rowid |-> rows[k].id, street |-> rows[k].street,
         house_number |-> rows[k].house_number, city |-> rows[k].city]]

\* line 382
BeginBuild ==
    /\ pc = "index"
    /\ pc' = "createIndex"
    /\ buildRuns' = buildRuns + 1
    /\ UNCHANGED <<err, decoderVars, loaderVars, txOpen, txRows, disk, indices,
                   ftsExists, fts, flushes, stmts>>
    /\ UNCHANGED auxVars

\* lines 391-396: the three CREATE INDEX statements
CreateIndex ==
    /\ pc = "createIndex"
    /\ ~DbExecBlocked
    /\ indices' = {createIndices[k] : k \in 1..Len(createIndices)}
    /\ pc' = "analyze"
    /\ UNCHANGED <<err, decoderVars, loaderVars, txOpen, txRows, disk, ftsExists,
                   fts, flushes, stmts, buildRuns>>
    /\ UNCHANGED auxVars

\* lines 398-415: ANALYZE, PRAGMA optimize, VACUUM
Maintenance ==
    /\ pc = "analyze"
    /\ ~DbExecBlocked
    /\ pc' = "ftsCreate"
    /\ UNCHANGED <<err, decoderVars, loaderVars, storeVars>>
    /\ UNCHANGED auxVars

\* lines 417-432
CreateFTS ==
    /\ pc = "ftsCreate"
    /\ ~DbExecBlocked
    /\ ftsExists' = TRUE
    /\ pc' = "ftsPopulate"
    /\ UNCHANGED <<err, decoderVars, loaderVars, txOpen, txRows, disk, indices,
                   fts, flushes, stmts, buildRuns>>
    /\ UNCHANGED auxVars

\* lines 434-451
PopulateFTS ==
    /\ pc = "ftsPopulate"
    /\ ~DbExecBlocked
    /\ fts' = fts \o FtsSelect(disk)
    /\ pc' = "done"
    /\ UNCHANGED <<err, decoderVars, loaderVars, txOpen, txRows, disk, indices,
                   ftsExists, flushes, stmts, buildRuns>>
    /\ UNCHANGED auxVars

BuildPCs == {"createIndex", "analyze", "ftsCreate", "ftsPopulate"}

\* a statement of the build returns an error
BuildFail ==
    /\ pc \in BuildPCs
    /\ Fail(IF DbExecBlocked THEN "locked" ELSE pc)
    /\ fts' \in IF pc = "ftsPopulate" /\ ~DbExecBlocked
                THEN CommitInterrupted(fts, FtsSelect(disk)) ELSE {fts}
    /\ indices' \in IF pc = "createIndex" /\ ~DbExecBlocked
                    THEN {{createIndices[k] : k \in 1..n} :
                              n \in 0..(Len(createIndices) - 1)}
                    ELSE {indices}
    /\ UNCHANGED disk

(***************************************************************************)
(* The process is terminated                                               *)
(***************************************************************************)
Terminal == {"done", "failed", "crashed"}

Crash ==
    /\ pc \notin Terminal
    /\ pc' = "crashed"
    /\ disk' \in IF InCommit THEN CommitInterrupted(disk, txRows) ELSE {disk}
    /\ fts' \in IF pc = "ftsPopulate" /\ ~DbExecBlocked
                THEN CommitInterrupted(fts, FtsSelect(disk)) ELSE {fts}
    /\ Exit
    /\ UNCHANGED <<err, indices>>

\* the steps of the program when nothing fails
Step ==
    \/ Setup
    \/ OuterToken
    \/ InnerEnd
    \/ DecodeFeature
    \/ DecodeTypeError
    \/ DecodeSyntaxError
    \/ DecodeAtEOF
    \/ DecodeStuck
    \/ ExecSubBatch
    \/ Commit
    \/ Begin
    \/ FinalCheck
    \/ BeginBuild
    \/ CreateIndex
    \/ Maintenance
    \/ CreateFTS
    \/ PopulateFTS

\* failures of the environment
Fault ==
    \/ SetupFail
    \/ TokenFail
    \/ ExecFail
    \/ CommitFail
    \/ BeginFail
    \/ BuildFail
    \/ Crash

Next == Step \/ Tick \/ Fault

Spec == Init /\ [][Next]_vars

\* the program is sequential: it takes its next step whenever it has one
FairSpec == Init /\ [][Next]_vars /\ WF_vars(Step)

(***************************************************************************)
(* extractAddressData on its own: one call, lines 311-315, for every       *)
(* feature of a space of properties and geometries                         *)
(***************************************************************************)
\* the key is not in the properties object
Absent == [t |-> "absent", v |-> ""]

Entry(key, x) == IF x.t = "absent" THEN [k \in {} |-> Null] ELSE key :> x

Properties ==
    { Entry("addr:street", s) @@ Entry("addr:housenumber", h) @@
      Entry("addr:city", c) @@ Entry("addr:town", t) @@ Entry("addr:village", v) :
        s \in {Absent, Null, Str("Hauptstrasse")},
        h \in {Absent, Null, Str("12a"), Num("7"), Num("1.0")},
        c \in {Absent, Null, Str("Berlin")},
        t \in {Absent, Null, Str("Potsdam")},
        v \in {Absent, Str("Dorf")} }

GeometryTypes == {"Point", "LineString", "Polygon", "MultiPolygon", "MultiPoint"}

Payloads ==
    { Coords(0, <<>>),
      Coords(1, <<>>),
      Coords(1, <<13>>),
      Coords(1, <<13, 52>>),
      Coords(1, <<0, 0>>),
      Coords(1, <<0, 52>>),
      Coords(1, <<13, 0>>),
      Coords(2, <<<<>>>>),
      Coords(2, <<<<14, 53>>, <<15, 54>>>>),
      Coords(2, <<<<0, 0>>, <<15, 54>>>>),
      Coords(3, <<<<<<2, 3>>, <<4, 5>>, <<2, 3>>>>,
                  <<<<6, 7>>, <<8, 9>>, <<6, 7>>>>>>),
      Coords(3, <<<<<<0, 0>>, <<4, 5>>, <<0, 0>>>>>>),
      Coords(3, <<<<<<2>>>>>>),
      Coords(4, <<<<<<<<5, 6>>, <<7, 8>>, <<5, 6>>>>>>,
                  <<<<<<9, 10>>, <<11, 12>>, <<9, 10>>>>>>>>) }

FeatureSpace ==
    { [props |-> p, gtype |-> g, coords |-> c] :
        p \in Properties, g \in GeometryTypes, c \in Payloads }

InitExtract ==
    /\ pc = "extract"
    /\ Fresh
    /\ NoDatabase
    /\ arg \in FeatureSpace
    /\ result = NoResult
    /\ LocateIdle
    /\ SearchIdle
    /\ RunIdle

\* lines 311-315: record, ok := extractAddressData(&feature); if ok the
\* record is appended to the batch and counted
Extract ==
    /\ pc = "extract"
    /\ pc' = "extracted"
    /\ result' = extractAddressData(arg)
    /\ IF result'.ok
       THEN /\ batch' = Append(batch, result'.record)
            /\ accepted' = Append(accepted, result'.record)
            /\ totalCount' = totalCount + 1
       ELSE UNCHANGED <<batch, accepted, totalCount>>
    /\ UNCHANGED <<err, decoderVars, sinceBatchStart, i, storeVars, arg, locateVars,
                   searchVars, runVars>>

SpecExtract == InitExtract /\ [][Extract]_vars

(***************************************************************************)
(* The two loops of lines 289-309 over a document given token by token.    *)
(* Colons and commas are left out: the decoder skips them.                 *)
(***************************************************************************)
Open(d) == [k |-> "open", v |-> d]
Close(d) == [k |-> "close", v |-> d]
MemberKey(s) == [k |-> "key", v |-> s]
StrValue(s) == [k |-> "str", v |-> s]
NumValue(s) == [k |-> "num", v |-> s]
\* a feature object, read by Decode as one value
FeatureValue(s) == [k |-> "object", v |-> s]

mType == <<MemberKey("type"), StrValue("FeatureCollection")>>
mName == <<MemberKey("name"), StrValue("features")>>
mCrs ==
    <<MemberKey("crs"), Open("{"), MemberKey("features"), Open("["),
      FeatureValue("x"), Close("]"), Close("}")>>
mBbox == <<MemberKey("bbox"), Open("["), NumValue("1"), NumValue("2"), Close("]")>>
mFeatures ==
    <<MemberKey("features"), Open("["), FeatureValue("a"), FeatureValue("b"),
      Close("]")>>

Members == {mType, mName, mCrs, mBbox, mFeatures}
\* number of members of the top-level object
MaxMembers == 3

RECURSIVE Flat(_)
Flat(ms) == IF ms = <<>> THEN <<>> ELSE Head(ms) \o Flat(Tail(ms))

\* the documents: an object of up to MaxMembers different members
Documents ==
    { <<Open("{")>> \o Flat(ms) \o <<Close("}")>> :
        ms \in { m \in UNION { [1..n -> Members] : n \in 0..MaxMembers } :
                    \A a, b \in DOMAIN m : a # b => m[a] # m[b] } }

\* decoder.More(): something is left and it is neither ']' nor '}'
More(d, consumed) == consumed < Len(d) /\ d[consumed + 1].k # "close"

RECURSIVE MatchClose(_, _, _)
\* the index of the closer that ends the value opened before q, n levels up
MatchClose(d, q, n) ==
    IF d[q].k = "open" THEN MatchClose(d, q + 1, n + 1)
    ELSE IF d[q].k = "close"
         THEN IF n = 1 THEN q ELSE MatchClose(d, q + 1, n - 1)
         ELSE MatchClose(d, q + 1, n)

\* the index of the last token of the value that begins at q
ValueEnd(d, q) == IF d[q].k = "open" THEN MatchClose(d, q + 1, 1) ELSE q

\* line 296: the token is a Go string equal to "features"; an object key
\* and a string value are both Go strings
IsFeaturesToken(tok) == tok.k \in {"key", "str"} /\ tok.v = "features"

InitLocate ==
    /\ pc = "open"
    /\ Fresh
    /\ NoDatabase
    /\ ExtractIdle
    /\ doc \in Documents
    /\ startedAt = 0
    /\ decodedAt = <<>>
    /\ SearchIdle
    /\ RunIdle

locateFrame == <<err, nread, decErr, loaderVars, storeVars, extractVars, doc,
                searchVars, runVars>>

\* lines 262-266: the first token is the '{'
LocateOpen ==
    /\ pc = "open"
    /\ pos' = 1
    /\ pc' = "locate"
    /\ UNCHANGED <<spin, startedAt, decodedAt, locateFrame>>

\* lines 289-301: one iteration of the outer loop
LocateToken ==
    /\ pc = "locate"
    /\ More(doc, pos)
    /\ IF IsFeaturesToken(doc[pos + 1])
       THEN \* line 298 reads one more token, whatever it is
            /\ pos' = pos + 2
            /\ startedAt' = pos + 1
            /\ pc' = "decode"
       ELSE /\ pos' = pos + 1
            /\ UNCHANGED <<startedAt, pc>>
    /\ UNCHANGED <<spin, decodedAt, locateFrame>>

\* line 289: decoder.More() is false
LocateEnd ==
    /\ pc = "locate"
    /\ ~More(doc, pos)
    /\ pc' = "located"
    /\ UNCHANGED <<pos, spin, startedAt, decodedAt, locateFrame>>

\* lines 304-309 at a value: Decode reads all of it; any JSON object
\* unmarshals into Feature, anything else is an UnmarshalTypeError
LocateDecode ==
    /\ pc = "decode"
    /\ More(doc, pos)
    /\ doc[pos + 1].k # "key"
    /\ pos' = ValueEnd(doc, pos + 1)
    /\ decodedAt' = IF doc[pos + 1] \in {Open("{")} \/ doc[pos + 1].k = "object"
                    THEN Append(decodedAt, pos + 1) ELSE decodedAt
    /\ UNCHANGED <<pc, spin, startedAt, locateFrame>>

\* lines 304-309 at an object key: Decode returns "not at beginning of
\* value" and reads nothing, continue, for ever
LocateStuck ==
    /\ pc = "decode"
    /\ More(doc, pos)
    /\ doc[pos + 1].k = "key"
    /\ spin' = 1 - spin
    /\ UNCHANGED <<pc, pos, startedAt, decodedAt, locateFrame>>

\* line 304: decoder.More() is false, and so it is at line 289
LocateInnerEnd ==
    /\ pc = "decode"
    /\ ~More(doc, pos)
    /\ pc' = "located"
    /\ UNCHANGED <<pos, spin, startedAt, decodedAt, locateFrame>>

NextLocate ==
    \/ LocateOpen
    \/ LocateToken
    \/ LocateEnd
    \/ LocateDecode
    \/ LocateStuck
    \/ LocateInnerEnd

SpecLocate == InitLocate /\ [][NextLocate]_vars

(***************************************************************************)
(* searchAddresses, lines 557-625, on a finished database.  Texts are      *)
(* written without umlauts and sharp s.                                    *)
(***************************************************************************)
\* lines 568-573
queries ==
    <<"Berlin", "Hauptstrasse", "Muenchen Schillerstrasse", "Frankfurt am Main">>

\* LIMIT 5
searchLimit == 5

\* the tokens the unicode61 tokenizer of line 426 makes of the texts used:
\* split at white space, folded to lower case
Tokenize(text) ==
    CASE text = "Berlin" -> <<"berlin">>
      [] text = "Hauptstrasse" -> <<"hauptstrasse">>
      [] text = "Muenchen Schillerstrasse" -> <<"muenchen", "schillerstrasse">>
      [] text = "Frankfurt am Main" -> <<"frankfurt", "am", "main">>
      [] text = "Berliner Strasse" -> <<"berliner", "strasse">>
      [] text = "Schillerstrasse" -> <<"schillerstrasse">>
      [] text = "Muenchen" -> <<"muenchen">>
      [] text = "Potsdam" -> <<"potsdam">>
      [] text = "Am Main" -> <<"am", "main">>
      [] text = "Alt Berlin" -> <<"alt", "berlin">>
      [] text = "Goethestrasse" -> <<"goethestrasse">>
      [] text = "Lindenweg" -> <<"lindenweg">>
      [] OTHER -> <<text>>

Addr(s, h, c) == [street |-> s, house_number |-> h, city |-> c, lon |-> 13, lat |-> 52]

AddressPool ==
    << Addr("Hauptstrasse", "1", "Berlin"),
       Addr("Berliner Strasse", "2", "Potsdam"),
       Addr("Schillerstrasse", "3", "Muenchen"),
       Addr("Schillerstrasse", "4", "Berlin"),
       Addr("Am Main", "5", "Frankfurt am Main"),
       Addr("Alt Berlin", "6", "Berlin"),
       Addr("Goethestrasse", "7", "Berlin"),
       Addr("Lindenweg", "8", "Berlin"),
       Addr("Hauptstrasse", "9", "Berlin") >>

RECURSIVE Pick(_, _, _)
\* the records of pool at the positions in S, from position k on
Pick(pool, S, k) ==
    IF k > Len(pool) THEN <<>>
    ELSE (IF k \in S THEN <<pool[k]>> ELSE <<>>) \o Pick(pool, S, k + 1)

\* the tokens of all columns of a row of address_fts
RowTokens(f) ==
    Tokenize(f.street) \o Tokenize(f.house_number) \o Tokenize(f.city)

\* address_fts MATCH ?: a query of bare words asks for all of them
FtsMatch(f, q) ==
    \A k \in 1..Len(Tokenize(q)) :
        \E j \in 1..Len(RowTokens(f)) : RowTokens(f)[j] = Tokenize(q)[k]

\* the column rank: lower is better; the occurrences of the query's words
\* stand for the bm25 score
Rank(f, q) ==
    0 - Cardinality({j \in 1..Len(RowTokens(f)) :
                        \E k \in 1..Len(Tokenize(q)) : RowTokens(f)[j] = Tokenize(q)[k]})

\* JOIN addresses a ON address_fts.rowid = a.id, for one row of address_fts
JoinRow(f, rows, q) ==
    LET ks == {k \in 1..Len(rows) : rows[k].id = f.rowid}
    IN  IF ks = {} THEN <<>>
        ELSE <<[address |-> rows[CHOOSE k \in ks : TRUE], rowid |-> f.rowid,
                rank |-> Rank(f, q)]>>

RECURSIVE Joined(_, _, _)
\* FROM address_fts JOIN addresses ... WHERE address_fts MATCH ?
Joined(ftsRows, rows, q) ==
    IF ftsRows = <<>> THEN <<>>
    ELSE (IF FtsMatch(Head(ftsRows), q) THEN JoinRow(Head(ftsRows), rows, q) ELSE <<>>)
             \o Joined(Tail(ftsRows), rows, q)

RECURSIVE InsertByRank(_, _)
InsertByRank(sorted, x) ==
    IF sorted = <<>> THEN <<x>>
    ELSE IF x.rank < Head(sorted).rank THEN <<x>> \o sorted
    ELSE <<Head(sorted)>> \o InsertByRank(Tail(sorted), x)

RECURSIVE OrderByRank(_)
\* ORDER BY rank; rows of equal rank stay in the order they were found in
OrderByRank(rows) ==
    IF rows = <<>> THEN <<>>
    ELSE InsertByRank(OrderByRank(SubSeq(rows, 1, Len(rows) - 1)), rows[Len(rows)])

\* the query without its LIMIT
NoLimit(rows) == rows

\* LIMIT 5
Limit(rows) == SubSeq(rows, 1, Min(searchLimit, Len(rows)))

\* the rows of the query of lines 581-592 (the three highlight columns are
\* left out)
Select(ftsRows, rows, q) == Limit(OrderByRank(Joined(ftsRows, rows, q)))

\* the database processGeoJSON leaves when it returns nil
InitSearch ==
    /\ pc = "search"
    /\ Fresh
    /\ disk \in {InsertAll(<<>>, Pick(AddressPool, S, 1)) :
                    S \in SUBSET (1..Len(AddressPool))}
    /\ fts = FtsSelect(disk)
    /\ ftsExists = TRUE
    /\ indices = {createIndices[k] : k \in 1..Len(createIndices)}
    /\ ExtractIdle
    /\ LocateIdle
    /\ SearchIdle
    /\ RunIdle

searchFrame == <<decoderVars, batch, totalCount, sinceBatchStart, accepted,
                 storeVars, extractVars, locateVars, runVars>>

\* lines 575-622: one query and the loop over its rows
Query ==
    /\ pc = "search"
    /\ i < Len(queries)
    /\ results' = Select(fts, disk, queries[i + 1])
    /\ i' = i + 1
    /\ UNCHANGED <<pc, err, searchFrame>>

\* sql.Open, db.Query or rows.Scan returns an error
QueryFail ==
    /\ pc = "search"
    /\ i < Len(queries)
    /\ pc' = "failed"
    /\ err' = "search"
    /\ UNCHANGED <<i, results, searchFrame>>

\* line 624
SearchReturn ==
    /\ pc = "search"
    /\ i = Len(queries)
    /\ pc' = "searched"
    /\ UNCHANGED <<i, err, results, searchFrame>>

NextSearch == Query \/ QueryFail \/ SearchReturn

SpecSearch == InitSearch /\ [][NextSearch]_vars

(***************************************************************************)
(* run, lines 85-116: the stages as calls that return nil or an error.     *)
(* A file is "stale" when it was there before the run, "partial" when a    *)
(* failed stage left it, "fresh" when a stage of this run completed it.    *)
(***************************************************************************)
runStages == <<"download", "filter", "export", "load", "search">>

\* the message run wraps the stage's error in
ErrorOf(stage) ==
    CASE stage = "download" -> "fehler beim herunterladen der osm-datei"
      [] stage = "filter" -> "fehler beim filtern der osm-daten"
      [] stage = "export" -> "fehler geojson"
      [] stage = "load" -> "fehler geo to sqlite"
      [] stage = "search" -> "fehler bei der volltextsuche"

\* the stage's error logged and the next stage called all the same
AfterErrorGoOn(stage) ==
    IF stage = "search" THEN "returned"
    ELSE runStages[1 + CHOOSE k \in 1..Len(runStages) : runStages[k] = stage]

\* if err != nil { return fmt.Errorf(...) }
AfterError(stage) == "returned"

\* where run goes on after the stage returned nil
AfterStage(stage) ==
    IF stage = "search" THEN "returned"
    ELSE runStages[1 + CHOOSE k \in 1..Len(runStages) : runStages[k] = stage]

InitRun ==
    /\ pc = "download"
    /\ Fresh
    /\ NoDatabase
    /\ ExtractIdle
    /\ LocateIdle
    /\ SearchIdle
    /\ files \in [FileNames -> {"absent", "stale"}]
    /\ ran = <<>>

runFrame == <<decoderVars, loaderVars, storeVars, extractVars, locateVars, searchVars>>

\* a stage that makes the file out when the file is not there yet:
\* downloadOSMFile (118-153), filterOSMData (155-176), exportToGeoJSON
\* (178-198, after the os.Stat of line 97)
Produce(stage, out) ==
    /\ ran' = Append(ran, stage)
    /\ IF stage = "export" /\ files["filtered"] = "absent"
       THEN /\ pc' = AfterError(stage)
            /\ err' = "fehler: gefilterte osm-datei existiert nicht"
            /\ UNCHANGED files
       ELSE /\ pc' = AfterStage(stage)
            /\ files' = IF files[out] # "absent" THEN files
                        ELSE [files EXCEPT ![out] = "fresh"]
            /\ UNCHANGED err
    /\ UNCHANGED runFrame

\* http.Get, os.Create, io.Copy or cmd.Run returns an error; what was
\* written of the file stays
ProduceFail(stage, out) ==
    /\ files[out] = "absent"
    /\ stage = "export" => files["filtered"] # "absent"
    /\ ran' = Append(ran, stage)
    /\ pc' = AfterError(stage)
    /\ err' = ErrorOf(stage)
    /\ files' \in {files, [files EXCEPT ![out] = "partial"]}
    /\ UNCHANGED runFrame

\* line 87
Download ==
    /\ pc = "download"
    /\ Produce("download", "osm")

DownloadFail ==
    /\ pc = "download"
    /\ ProduceFail("download", "osm")

\* line 92
Filter ==
    /\ pc = "filter"
    /\ Produce("filter", "filtered")

FilterFail ==
    /\ pc = "filter"
    /\ ProduceFail("filter", "filtered")

\* lines 97-101
Export ==
    /\ pc = "export"
    /\ Produce("export", "geojson")

ExportFail ==
    /\ pc = "export"
    /\ ProduceFail("export", "geojson")

\* processGeoJSON returns nil: the database is loaded and its indices and
\* full-text table are built
LoadStage ==
    /\ pc = "load"
    /\ ran' = Append(ran, "load")
    /\ pc' = AfterStage("load")
    /\ files' = [files EXCEPT !["db"] = "fresh"]
    /\ UNCHANGED <<err, runFrame>>

\* processGeoJSON returns an error: at os.Open (line 204) the old database
\* file is still there, later it is removed or partly written
LoadStageFail ==
    /\ pc = "load"
    /\ ran' = Append(ran, "load")
    /\ pc' = AfterError("load")
    /\ err' = ErrorOf("load")
    /\ files' \in {files, [files EXCEPT !["db"] = "absent"],
                   [files EXCEPT !["db"] = "partial"]}
    /\ UNCHANGED runFrame

SearchStage ==
    /\ pc = "search"
    /\ ran' = Append(ran, "search")
    /\ pc' = AfterStage("search")
    /\ UNCHANGED <<err, files, runFrame>>

SearchStageFail ==
    /\ pc = "search"
    /\ ran' = Append(ran, "search")
    /\ pc' = AfterError("search")
    /\ err' = ErrorOf("search")
    /\ UNCHANGED <<files, runFrame>>

NextRun ==
    \/ Download
    \/ DownloadFail
    \/ Filter
    \/ FilterFail
    \/ Export
    \/ ExportFail
    \/ LoadStage
    \/ LoadStageFail
    \/ SearchStage
    \/ SearchStageFail

SpecRun == InitRun /\ [][NextRun]_vars

(***************************************************************************)
(* Properties                                                              *)
(***************************************************************************)
RECURSIVE Load(_, _)
\* the rows of addresses after the batches were inserted and committed in turn
Load(rows, batches) ==
    IF batches = <<>> THEN rows
    ELSE Load(InsertAll(rows, Head(batches)), Tail(batches))

RECURSIVE Flatten(_)
Flatten(batches) ==
    IF batches = <<>> THEN <<>> ELSE Head(batches) \o Flatten(Tail(batches))

KeysOf(seq) == {Key(seq[k]) : k \in 1..Len(seq)}
RowsWithKey(rows, key) == {k \in 1..Len(rows) : Key(rows[k]) = key}

LoadPCs == {"outer", "inner", "flushInsert", "flushCommit", "flushBegin",
            "final", "finalInsert", "finalCommit"}

\* C1: when the process is terminated after N flushes committed and before
\* flush N+1 commits, the database file holds exactly the rows of the first
\* N flushes and no row of flush N+1.
CrashKeepsCommittedFlushesOnly ==
    pc = "crashed" => disk = Load(<<>>, flushes)

\* C2: when an insert statement or the commit of a flush fails, the run
\* aborts with that error, the rows of the batches committed before are all
\* in the file and no row of the failed batch is.
FailedFlushLeavesCommittedOnly ==
    (pc = "failed" /\ err \in {"insert", "commit"}) => disk = Load(<<>>, flushes)

\* C3: the batch buffer never holds more than batchSize records, and no
\* transaction, open or committed, carries more than batchSize records.
BatchWindowBound ==
    /\ Len(batch) <= batchSize
    /\ Len(txRows) <= batchSize
    /\ \A k \in 1..Len(flushes) : Len(flushes[k]) <= batchSize

\* C3 witness: a transaction of exactly batchSize records was committed
\* and the load went on
FullBatchCommitted ==
    /\ pc = "inner"
    /\ \E k \in 1..Len(flushes) : Len(flushes[k]) = batchSize

\* C4: while the loop waits for the next feature with records in the
\* buffer, the time since the transaction began never exceeds
\* maxBatchDuration: the flush happened when the ceiling was reached.
NoOverdueBatch ==
    (pc = "inner" /\ Len(batch) > 0) => sinceBatchStart <= maxBatchDuration

\* C5: no two rows of addresses, committed or inserted in the open
\* transaction, share (street, house_number, city), and every record of a
\* committed batch has exactly one row with its key.
UniqueUnderDuplicates ==
    /\ \A j, k \in 1..Len(disk \o txRows) :
           j # k => Key((disk \o txRows)[j]) # Key((disk \o txRows)[k])
    /\ \A b \in 1..Len(flushes) : \A k \in 1..Len(flushes[b]) :
           Cardinality(RowsWithKey(disk, Key(flushes[b][k]))) = 1

\* C5 witness: the same key was committed in an earlier flush and then
\* twice within one statement of a later flush
DuplicatesAbsorbed ==
    /\ Len(flushes) = 2
    /\ Len(flushes[2]) = 2
    /\ Key(flushes[2][1]) = Key(flushes[2][2])
    /\ Key(flushes[1][1]) = Key(flushes[2][1])
    /\ flushes[2][1] # flushes[2][2]
    /\ Len(disk) = 1

\* C6: when processGeoJSON returns nil, the keys of addresses are exactly
\* the keys of the records extractAddressData returned.
LoadComplete ==
    pc = "done" => KeysOf(disk) = KeysOf(accepted)

\* C6 witness: a full batch, then a last batch of one record, both loaded
LastPartialBatchLoaded ==
    /\ pc = "done"
    /\ Len(flushes) = 2
    /\ Len(flushes[1]) = batchSize
    /\ Len(flushes[2]) = 1
    /\ Cardinality(KeysOf(disk)) = 2
    /\ Key(flushes[2][1]) \notin KeysOf(flushes[1])

\* C7: an iteration of the feature loop whose Decode failed has consumed the
\* value it failed on, so that the next iteration decodes the next feature.
SkipConsumesFailedFeature ==
    [][(DecodeTypeError \/ DecodeSyntaxError \/ DecodeStuck)
          => nread' = nread + 1]_vars

\* C8: the decode / extract / load loop is eventually left, whatever the
\* input.
LoopTerminates == <>(pc \notin LoadPCs \cup {"setup"})

\* the loop is left unless the decoder keeps an error
LoopTerminatesUnlessStuck == <>(pc \notin LoadPCs \cup {"setup"} \/ decErr)

\* C9: the build starts at most once, and once in a completed run; indices
\* and the full-text table exist only once the loops are over and every
\* accepted record is in a committed batch; once the build started nothing
\* is inserted or committed any more.
BuildOrdering ==
    /\ [](/\ buildRuns <= 1
          /\ pc = "done" => buildRuns = 1
          /\ pc \in BuildPCs => buildRuns = 1
          /\ pc \in LoadPCs \cup {"setup", "index"} =>
                 /\ buildRuns = 0
                 /\ indices = {}
                 /\ ~ftsExists
          /\ buildRuns = 1 =>
                 /\ pc \in BuildPCs \cup Terminal
                 /\ Flatten(flushes) = accepted
                 /\ txRows = <<>>
                 /\ disk = Load(<<>>, flushes))
    /\ [][buildRuns = 1 =>
             /\ flushes' = flushes
             /\ disk' = disk
             /\ txRows' = <<>>
             /\ accepted' = accepted]_vars

\* C9 witness: the build ran after two committed flushes
BuiltAfterTwoFlushes ==
    /\ pc = "done"
    /\ buildRuns = 1
    /\ Len(flushes) = 2
    /\ Cardinality(indices) = 3

\* C10: every row of address_fts has exactly one row of addresses with its
\* rowid as id; address_fts is empty until the build populates it; when
\* processGeoJSON returns nil it holds the id, street, house_number and city
\* of every row of addresses and nothing else.
MirrorInvariant ==
    /\ \A k \in 1..Len(fts) :
           Cardinality({j \in 1..Len(disk) : disk[j].id = fts[k].rowid}) = 1
    /\ pc \notin Terminal => fts = <<>>
    /\ pc = "done" =>
           /\ Len(fts) = Len(disk)
           /\ {<<fts[k].rowid, fts[k].street, fts[k].house_number, fts[k].city>> :
                   k \in 1..Len(fts)}
              = {<<disk[k].id, disk[k].street, disk[k].house_number, disk[k].city>> :
                   k \in 1..Len(disk)}

\* C10 witness: a populated mirror of two rows
MirrorPopulated ==
    /\ pc = "done"
    /\ Len(fts) = 2
    /\ Len(disk) = 2

\* C18: a flush of a buffer of n records issues ceil(n / maxRecordsPerBatch)
\* statements of 1..maxRecordsPerBatch records each, which put one after
\* the other are the buffer; they are issued inside the open transaction
\* before its commit, and a transaction is begun and the buffer cleared
\* only after that commit
FlushAlgorithm ==
    /\ [](/\ InBulkInsert =>
                /\ txOpen
                /\ Flatten(stmts) = SubSeq(batch, 1, Min(i, Len(batch)))
          /\ InCommit =>
                /\ txOpen
                /\ Flatten(stmts) = batch
                /\ Len(stmts) =
                       (Len(batch) + maxRecordsPerBatch - 1) \div maxRecordsPerBatch
          /\ (InBulkInsert \/ InCommit) =>
                \A k \in 1..Len(stmts) :
                    Len(stmts[k]) >= 1 /\ Len(stmts[k]) <= maxRecordsPerBatch)
    /\ [][/\ (stmts' # stmts /\ stmts' # <<>>) => txOpen /\ txOpen'
          /\ flushes' # flushes =>
                /\ InCommit
                /\ flushes' = Append(flushes, batch)
                /\ ~txOpen'
          /\ (pc # "setup" /\ ~txOpen /\ txOpen') =>
                /\ flushes # <<>>
                /\ flushes[Len(flushes)] = batch
                /\ batch' = <<>>
          /\ (batch # <<>> /\ batch' = <<>> /\ pc' \notin {"failed", "crashed"}) =>
                /\ flushes # <<>>
                /\ flushes[Len(flushes)] = batch
                /\ ~txOpen /\ txOpen']_vars

\* C18 witness: a flush of three records went out as statements of two and
\* one, was committed, and the next transaction is open on an empty buffer
ThreeRecordsTwoStatements ==
    /\ pc = "inner"
    /\ txOpen
    /\ batch = <<>>
    /\ Len(flushes) = 1
    /\ Len(flushes[1]) = 3
    /\ Len(stmts) = 2
    /\ Len(stmts[1]) = 2
    /\ Len(stmts[2]) = 1
    /\ stmts[1] \o stmts[2] = flushes[1]

\* C20: when the first statement of the index build is executed, and for
\* the rest of the build, no transaction of the load is open
NoDanglingTransaction == pc \in BuildPCs => ~txOpen

RECURSIVE SumLen(_)
\* the sizes of the batches added up
SumLen(batches) ==
    IF batches = <<>> THEN 0 ELSE Len(Head(batches)) + SumLen(Tail(batches))

\* C21: while nothing has failed, the accepted records are, in arrival
\* order, the committed flushes one after the other followed by the buffer
\* of the open transaction, so none is dropped and none is in two flushes,
\* and totalCount is their number; when processGeoJSON returns nil every
\* accepted record is in a flush and the total it reports is both the
\* number of accepted records and the sum of the flush sizes
RecordConservation ==
    /\ pc \notin {"failed", "crashed"} =>
          /\ accepted = Flatten(flushes) \o (IF txOpen THEN batch ELSE <<>>)
          /\ totalCount = Len(accepted)
    /\ pc = "done" =>
          /\ accepted = Flatten(flushes)
          /\ totalCount = Len(accepted)
          /\ totalCount = SumLen(flushes)

\* C21 witness: four records were accepted, flushed as three and one, and
\* counted as four although two of them share a key
FourCountedInTwoFlushes ==
    /\ pc = "done"
    /\ totalCount = 4
    /\ Len(flushes) = 2
    /\ Len(flushes[1]) = 3
    /\ Len(flushes[2]) = 1
    /\ Len(disk) < 4

(***************************************************************************)
(* Properties of extractAddressData, under SpecExtract                     *)
(***************************************************************************)
SupportedTypes == {"Point", "LineString", "Polygon", "MultiPolygon"}
CityKeys == <<"addr:city", "addr:town", "addr:village">>

RECURSIVE Lead(_, _)
\* the first vertex of arrays nested d deep
Lead(v, d) == IF d = 1 THEN <<v[1], v[2]>> ELSE Lead(v[1], d - 1)

RECURSIVE HasLead(_, _)
\* the first array of every level is there and the innermost holds a pair
HasLead(v, d) == IF d = 1 THEN Len(v) >= 2 ELSE Len(v) > 0 /\ HasLead(v[1], d - 1)

\* the coordinate a geometry of a supported type results in
Resulting(f) ==
    IF f.coords.depth = GeometryDepth(f.gtype) /\ HasLead(f.coords.val, f.coords.depth)
    THEN Lead(f.coords.val, f.coords.depth)
    ELSE <<0, 0>>

\* C11: a feature with a street and a usable coordinate yields a record
\* whose house_number is the property's value when it is present (a number
\* in its default formatting) and the empty string when it is absent or null
HouseNumberNormalized ==
    (pc = "extracted" /\ result.ok) =>
        LET h == Lookup(arg.props, "addr:housenumber")
        IN  result.record.house_number =
                CASE h.t = "str" -> h.v
                  [] h.t = "num" -> FormatFloat(h.v)
                  [] OTHER -> ""

\* C12: the city of an accepted record is the value of the first of
\* addr:city, addr:town, addr:village that is present, and the empty
\* string when none is
CityResolution ==
    (pc = "extracted" /\ result.ok) =>
        LET present == {k \in 1..Len(CityKeys) : CityKeys[k] \in DOMAIN arg.props}
            first == CHOOSE k \in present : \A j \in present : k <= j
        IN  result.record.city =
                IF present = {} THEN "" ELSE Sprintf(arg.props[CityKeys[first]])

\* C12 witness: no city, town and village both present, the town is taken
TownWinsOverVillage ==
    /\ pc = "extracted"
    /\ result.ok
    /\ DOMAIN arg.props = {"addr:street", "addr:town", "addr:village"}
    /\ arg.props["addr:town"] = Str("Potsdam")
    /\ result.record.city = "Potsdam"

\* C13: the coordinate of an accepted record is the leading vertex of the
\* geometry at the nesting of its type (the point, the first vertex, the
\* first vertex of the outer ring, that of the first polygon), and a
\* feature of any other geometry type is excluded
RepresentativeVertex ==
    pc = "extracted" =>
        /\ result.ok =>
              /\ arg.gtype \in SupportedTypes
              /\ arg.coords.depth = GeometryDepth(arg.gtype)
              /\ <<result.record.lon, result.record.lat>> =
                     Lead(arg.coords.val, arg.coords.depth)
        /\ arg.gtype \notin SupportedTypes => ~result.ok

\* C13 witness: a polygon of two rings yields the first vertex of the outer one
PolygonOuterRingFirst ==
    /\ pc = "extracted"
    /\ result.ok
    /\ arg.gtype = "Polygon"
    /\ Len(arg.coords.val) = 2
    /\ arg.coords.val[1] = <<<<2, 3>>, <<4, 5>>, <<2, 3>>>>
    /\ result.record.lon = 2
    /\ result.record.lat = 3

\* C14: a feature without an addr:street entry is excluded whatever else
\* it holds, and adds nothing to the batch
StreetRequired ==
    (pc = "extracted" /\ "addr:street" \notin DOMAIN arg.props) =>
        ~result.ok /\ batch = <<>> /\ totalCount = 0

\* C14 witness: a point with house number and city but no street is excluded
StreetlessRejected ==
    /\ pc = "extracted"
    /\ "addr:street" \notin DOMAIN arg.props
    /\ "addr:housenumber" \in DOMAIN arg.props
    /\ "addr:city" \in DOMAIN arg.props
    /\ arg.gtype = "Point"
    /\ arg.coords = Coords(1, <<13, 52>>)
    /\ ~result.ok
    /\ batch = <<>>

\* C19: a feature with a street and a supported geometry type is excluded
\* exactly when its resulting coordinate is (0, 0), the coordinate of a
\* payload that is missing, empty, too short or nested otherwise than its
\* type; a coordinate with one of lon, lat equal to 0 is kept
ZeroSentinel ==
    (pc = "extracted" /\ "addr:street" \in DOMAIN arg.props
                      /\ arg.gtype \in SupportedTypes) =>
        /\ result.ok <=> Resulting(arg) # <<0, 0>>
        /\ result.ok => <<result.record.lon, result.record.lat>> = Resulting(arg)

\* C19 witness: the point (0, 52) is accepted
OneZeroKept ==
    /\ pc = "extracted"
    /\ result.ok
    /\ result.record.lon = 0
    /\ result.record.lat = 52

(***************************************************************************)
(* Properties of the token loops, under SpecLocate                         *)
(***************************************************************************)
\* the number of arrays and objects open before the token at p
Depth(d, p) ==
    Cardinality({q \in 1..(p - 1) : d[q].k = "open"})
        - Cardinality({q \in 1..(p - 1) : d[q].k = "close"})

TopLevelFeaturesKey(d, p) ==
    d[p].k = "key" /\ d[p].v = "features" /\ Depth(d, p) = 1

\* C15: the feature loop is started only by the key "features" of a member
\* of the top-level object, and the members before it are passed over: a
\* document that has such a member has its feature loop started
FeaturesLocated ==
    /\ startedAt # 0 => TopLevelFeaturesKey(doc, startedAt)
    /\ (pc = "located" /\ \E p \in 1..Len(doc) : TopLevelFeaturesKey(doc, p))
           => startedAt # 0

(***************************************************************************)
(* Properties of searchAddresses, under SpecSearch                         *)
(***************************************************************************)
\* C16: every query returns at most 5 rows, each a row of addresses joined
\* by id = rowid to a row of address_fts that matches the query, no row
\* twice, in ascending rank with no better row left out; a query that
\* matches nothing returns no row and no error
SearchContract ==
    (pc \in {"search", "searched"} /\ i > 0) =>
        LET q == queries[i]
            matching == {f \in 1..Len(fts) : FtsMatch(fts[f], q)}
            returned == {results[k].rowid : k \in 1..Len(results)}
        IN  /\ err = ""
            /\ Len(results) <= 5
            /\ Len(results) = Min(5, Cardinality(matching))
            /\ \A k \in 1..Len(results) :
                  \E a \in 1..Len(disk), f \in matching :
                      /\ results[k].address = disk[a]
                      /\ disk[a].id = fts[f].rowid
                      /\ results[k].rowid = fts[f].rowid
                      /\ results[k].rank = Rank(fts[f], q)
            /\ Cardinality(returned) = Len(results)
            /\ \A k, l \in 1..Len(results) :
                  k < l => results[k].rank <= results[l].rank
            /\ \A f \in matching :
                  fts[f].rowid \notin returned =>
                      \A k \in 1..Len(results) : results[k].rank <= Rank(fts[f], q)
            /\ matching = {} => results = <<>>

\* C16 witness: six rows match "Berlin", the five returned start with the
\* one that matches twice
SearchTruncatedBestFirst ==
    /\ pc = "search"
    /\ i = 1
    /\ Len(disk) = Len(AddressPool)
    /\ Len(results) = 5
    /\ results[1].address.street = "Alt Berlin"
    /\ results[1].rank < results[5].rank

(***************************************************************************)
(* Properties of run, under SpecRun                                        *)
(***************************************************************************)
\* the stage an error message of run names
StageNamed(e) ==
    CASE e = "fehler beim herunterladen der osm-datei" -> "download"
      [] e = "fehler beim filtern der osm-daten" -> "filter"
      [] e = "fehler: gefilterte osm-datei existiert nicht" -> "export"
      [] e = "fehler geojson" -> "export"
      [] e = "fehler geo to sqlite" -> "load"
      [] e = "fehler bei der volltextsuche" -> "search"
      [] OTHER -> "none"

\* C17: the stages are called in the order download, filter, export, load,
\* search; run returns nil only after all five, and an error only right
\* after the stage the error names, with no stage called after it; the
\* search is called only on a database the load of this run completed
FatalErrorsStop ==
    /\ [](/\ Len(ran) <= 5
          /\ \A k \in 1..Len(ran) :
                ran[k] = <<"download", "filter", "export", "load", "search">>[k]
          /\ (pc = "returned" /\ err = "") => Len(ran) = 5
          /\ err # "" => pc = "returned" /\ StageNamed(err) = ran[Len(ran)]
          /\ (Len(ran) = 5 \/ pc = "search") => files["db"] = "fresh")
    /\ [][pc = "returned" => ran' = ran]_vars

\* C17 witness: the load failed at once, the database of an earlier run is
\* still there and the search was not called
StaleStoreNotSearched ==
    /\ pc = "returned"
    /\ err = "fehler geo to sqlite"
    /\ Len(ran) = 4
    /\ files["db"] = "stale"

====
